---- MODULE Spec2Model ----
(***************************************************************************)
(* The authorization and authentication layer of the blog API            *)
(* (blog_api): users, posts and comments behind the permission classes of *)
(* permissions.py, the view sets of views.py and the login serializer of  *)
(* authentication.py.                                                     *)
(*                                                                        *)
(* Each action is one HTTP request handled to completion: authentication, *)
(* view-level permissions, queryset lookup, object-level permissions, and *)
(* the handler's write to the store.  The response of the request just    *)
(* handled is kept in `last`.                                             *)
(*                                                                        *)
(* Framework behaviour the source relies on and the model takes as given: *)
(*  - an actor resolved by CustomJWTAuthentication.get_user counts as     *)
(*    authenticated (request.user.is_authenticated is true); a request    *)
(*    without credentials carries the anonymous user, whose id is None;   *)
(*  - a permission that refuses raises NotAuthenticated when the request  *)
(*    carried no credentials and PermissionDenied otherwise;              *)
(*  - ModelSerializer.update assigns every validated field to the         *)
(*    instance and saves it; ModelSerializer.create passes the validated  *)
(*    fields to the model constructor;                                    *)
(*  - the ForeignKey columns are enforced by the database.                *)
(***************************************************************************)
EXTENDS Integers, FiniteSets, TLC

\* ---------------------------------------------------------------- bounds
\* Number of rows (users, posts and comments together) the store ever inserts.
MaxRows == 4

Usernames == {"alice", "bob"}
\* The password clients register and update with, and what logins try.
Passwords == {"pw1"}
Guesses == {"pw1", "pw2"}

\* The anonymous user: request.user.id is None, equal to no stored id.
Anonymous == 0
\* An author_id the client left out of the request body.
Absent == 0

SAFE_METHODS == {"GET", "HEAD", "OPTIONS"}

VARIABLES
    users,       \* id -> [username, password]            (models.User)
    posts,       \* id -> [author, is_published]          (models.Post)
    comments,    \* id -> [post, author]                  (models.Comment)
    userSeq,     \* ids handed out so far (AutoField)
    postSeq,
    commentSeq,
    last         \* the request just handled and its response

vars == <<users, posts, comments, userSeq, postSeq, commentSeq, last>>
store == <<users, posts, comments, userSeq, postSeq, commentSeq>>

Restrict(f, S) == [x \in S |-> f[x]]
Extend(f, k, v) == [x \in DOMAIN f \cup {k} |-> IF x = k THEN v ELSE f[x]]

\* ------------------------------------------------------- credential store
\* make_password: a salted hash, from which the raw text is not read back.
make_password(raw_password) ==
    [algorithm |-> "pbkdf2_sha256", hash |-> raw_password]

\* What a CharField assignment stores: the text itself.
raw_text(value) == [algorithm |-> "none", hash |-> value]

\* check_password: an encoded value no hasher recognises never matches.
check_password(password, encoded) ==
    /\ encoded.algorithm = "pbkdf2_sha256"
    /\ encoded.hash = password

UsernameTaken(username, except) ==
    \E u \in DOMAIN users \ {except} : users[u].username = username

\* ------------------------------------------------------------ responses
\* What `last` keeps of a request: the endpoint, who asked, how it ended.
Response(op, actor, status) ==
    [op |-> op, actor |-> actor, status |-> status]

\* CustomJWTAuthentication.get_user: the token's user_id must still exist.
Authenticates(token) == token = Anonymous \/ token \in DOMAIN users

is_authenticated(user) == user # Anonymous

\* The error a refusing permission raises for this actor.
Denied(user) == IF is_authenticated(user) THEN "PermissionDenied"
                ELSE "NotAuthenticated"

\* ------------------------------------------------------ permission classes
\* rest_framework.permissions.IsAuthenticated, as the view sets use it.
IsAuthenticated_has_permission(user) == is_authenticated(user)

\* Variant: the view-level check lets every request through.
IsAuthenticatedOrReadOnlyPublished_allow_all(user, method) == TRUE

\* IsAuthenticatedOrReadOnlyPublished.has_permission
IsAuthenticatedOrReadOnlyPublished_has_permission(user, method) ==
    IF method \in SAFE_METHODS THEN TRUE
    ELSE is_authenticated(user)

\* IsAuthenticatedOrReadOnlyPublished.has_object_permission
IsAuthenticatedOrReadOnlyPublished_has_object_permission(user, method, obj) ==
    IF method \in SAFE_METHODS
    THEN IF ~is_authenticated(user) THEN obj.is_published ELSE TRUE
    ELSE obj.author = user

\* Variant: the ownership comparison is left out.
IsAuthorOrReadOnly_any_authenticated(user, method, obj) ==
    IF method \in SAFE_METHODS THEN TRUE
    ELSE is_authenticated(user)

\* IsAuthorOrReadOnly.has_object_permission
IsAuthorOrReadOnly_has_object_permission(user, method, obj) ==
    IF method \in SAFE_METHODS THEN TRUE
    ELSE obj.author = user

\* Variant: the guest filter is left out.
get_queryset_unfiltered(user) == DOMAIN posts

\* Variant: the guest test is inverted.
get_queryset_inverted(user) ==
    IF is_authenticated(user)
    THEN {p \in DOMAIN posts : posts[p].is_published}
    ELSE DOMAIN posts

\* PostViewSet.get_queryset: guests see published posts only.
get_queryset(user) ==
    IF ~is_authenticated(user)
    THEN {p \in DOMAIN posts : posts[p].is_published}
    ELSE DOMAIN posts

\* --------------------------------------------------------------- cascades
\* Variant: deleting a user leaves the user's posts in place.
PostsAfterUserDelete_no_cascade(uid) == posts

\* Post.author, on_delete=CASCADE
PostsAfterUserDelete(uid) ==
    Restrict(posts, {p \in DOMAIN posts : posts[p].author # uid})

\* Comment.author and Comment.post (through the deleted posts), CASCADE
CommentsAfterUserDelete(uid) ==
    Restrict(comments, {c \in DOMAIN comments :
        /\ comments[c].author # uid
        /\ posts[comments[c].post].author # uid})

\* Comment.post, on_delete=CASCADE
CommentsAfterPostDelete(pid) ==
    Restrict(comments, {c \in DOMAIN comments : comments[c].post # pid})

\* ------------------------------------------------------ request pipelines
\* What a request meets before its handler writes: [status, stage].
Outcome(status, stage) == [status |-> status, stage |-> stage]

\* UserViewSet: AllowAny on create, IsAuthenticated on everything else.
UserPipeline(token, action, id) ==
    IF ~Authenticates(token)
    THEN Outcome("AuthenticationFailed", "authentication")
    ELSE IF action # "create" /\ ~IsAuthenticated_has_permission(token)
    THEN Outcome(Denied(token), "permission")
    ELSE IF action # "create" /\ id \notin DOMAIN users
    THEN Outcome("NotFound", "queryset")
    ELSE Outcome("ok", "handler")

\* PostViewSet with permission_classes = [IsAuthenticatedOrReadOnlyPublished].
\* detail: the action resolves one post with get_object().
PostPipeline(token, method, detail, id) ==
    IF ~Authenticates(token)
    THEN Outcome("AuthenticationFailed", "authentication")
    ELSE IF ~IsAuthenticatedOrReadOnlyPublished_has_permission(token, method)
    THEN Outcome(Denied(token), "permission")
    ELSE IF ~detail
    THEN Outcome("ok", "handler")
    ELSE IF id \notin get_queryset(token)
    THEN Outcome("NotFound", "queryset")
    ELSE IF ~IsAuthenticatedOrReadOnlyPublished_has_object_permission(
                token, method, posts[id])
    THEN Outcome(Denied(token), "object_permission")
    ELSE Outcome("ok", "handler")

\* PostViewSet.comments and its GET mapping: the action's
\* permission_classes = [IsAuthenticated] serve both methods of the route.
PostCommentsPipeline(token, id) ==
    IF ~Authenticates(token)
    THEN Outcome("AuthenticationFailed", "authentication")
    ELSE IF ~IsAuthenticated_has_permission(token)
    THEN Outcome(Denied(token), "permission")
    ELSE IF id \notin get_queryset(token)
    THEN Outcome("NotFound", "queryset")
    ELSE Outcome("ok", "handler")

\* CommentViewSet with permission_classes = [IsAuthenticated, IsAuthorOrReadOnly].
CommentPipeline(token, method, detail, id) ==
    IF ~Authenticates(token)
    THEN Outcome("AuthenticationFailed", "authentication")
    ELSE IF ~IsAuthenticated_has_permission(token)
    THEN Outcome(Denied(token), "permission")
    ELSE IF ~detail
    THEN Outcome("ok", "handler")
    ELSE IF id \notin DOMAIN comments
    THEN Outcome("NotFound", "queryset")
    ELSE IF ~IsAuthorOrReadOnly_has_object_permission(token, method, comments[id])
    THEN Outcome(Denied(token), "object_permission")
    ELSE Outcome("ok", "handler")

\* Who can send a request that passes authentication.
Tokens == {Anonymous} \cup DOMAIN users
\* An id of each table that is not stored (the next one to be handed out),
\* and the ids a request can name: the stored ones and that one.
MissingUser == userSeq + 1
MissingPost == postSeq + 1
MissingComment == commentSeq + 1
UserIds == DOMAIN users \cup {MissingUser}
PostIds == DOMAIN posts \cup {MissingPost}
CommentIds == DOMAIN comments \cup {MissingComment}
\* The author value a client can put in a request body.
AuthorValues == {Absent} \cup UserIds
Rows == userSeq + postSeq + commentSeq

\* ------------------------------------------------------------ user requests
\* POST /users/ : UserSerializer.create hashes the password it was given.
UserCreate ==
    \E token \in Tokens :
        LET o == UserPipeline(token, "create", 0) IN
        /\ Rows < MaxRows
        /\ IF o.status # "ok"
           THEN /\ last' = Response("user_create", token, o.status)
                /\ UNCHANGED store
           ELSE \E username \in Usernames, password \in Passwords :
                IF UsernameTaken(username, 0)
                THEN /\ last' = Response("user_create", token,
                                         "ValidationError")
                     /\ UNCHANGED store
                ELSE /\ users' = Extend(users, userSeq + 1,
                                   [username |-> username,
                                    password |-> make_password(password)])
                     /\ userSeq' = userSeq + 1
                     /\ last' = Response("user_create", token, "ok")
                     /\ UNCHANGED <<posts, comments, postSeq, commentSeq>>

\* PUT/PATCH /users/{id}/ : UserSerializer defines no update, so the
\* serializer's default one assigns the validated fields as they came.
UserUpdate ==
    \E token \in Tokens, id \in DOMAIN users :
        LET o == UserPipeline(token, "update", id) IN
        IF o.status # "ok"
        THEN /\ last' = Response("user_update", token, o.status)
             /\ UNCHANGED store
        ELSE \E username \in Usernames, withPassword \in BOOLEAN,
                password \in Passwords :
             IF UsernameTaken(username, id)
             THEN /\ last' = Response("user_update", token,
                                      "ValidationError")
                  /\ UNCHANGED store
             ELSE /\ users' = [users EXCEPT ![id] =
                        [username |-> username,
                         password |-> IF withPassword THEN raw_text(password)
                                      ELSE @.password]]
                  /\ last' = Response("user_update", token, "ok")
                  /\ UNCHANGED <<posts, comments, userSeq, postSeq,
                                 commentSeq>>

\* DELETE /users/{id}/ : any authenticated actor; the user's posts and
\* comments go with the user.
UserDestroy ==
    \E token \in Tokens, id \in DOMAIN users :
        LET o == UserPipeline(token, "destroy", id) IN
        IF o.status # "ok"
        THEN /\ last' = Response("user_destroy", token, o.status)
             /\ UNCHANGED store
        ELSE /\ users' = Restrict(users, DOMAIN users \ {id})
             /\ posts' = PostsAfterUserDelete(id)
             /\ comments' = CommentsAfterUserDelete(id)
             /\ last' = Response("user_destroy", token, "ok")
             /\ UNCHANGED <<userSeq, postSeq, commentSeq>>

\* ------------------------------------------------------------------ login
NoActiveAccount == "No active account found with the given credentials"

\* Variant: an unknown username is reported in its own words.
validate_reveals_unknown(username, password) ==
    LET found == {u \in DOMAIN users : users[u].username = username} IN
    IF found = {}
    THEN [status |-> "AuthenticationFailed", detail |-> "User not found",
          user_id |-> 0]
    ELSE LET user == CHOOSE u \in found : TRUE IN
         IF ~check_password(password, users[user].password)
         THEN [status |-> "AuthenticationFailed", detail |-> NoActiveAccount,
               user_id |-> 0]
         ELSE [status |-> "ok", detail |-> "", user_id |-> user]

\* CustomTokenObtainPairSerializer.validate
validate(username, password) ==
    LET found == {u \in DOMAIN users : users[u].username = username} IN
    IF found = {}
    THEN [status |-> "AuthenticationFailed", detail |-> NoActiveAccount,
          user_id |-> 0]
    ELSE LET user == CHOOSE u \in found : TRUE IN
         IF ~check_password(password, users[user].password)
         THEN [status |-> "AuthenticationFailed", detail |-> NoActiveAccount,
               user_id |-> 0]
         ELSE [status |-> "ok", detail |-> "", user_id |-> user]

\* POST /token/ : CustomTokenObtainPairView
Login ==
    \E username \in Usernames, password \in Guesses :
        LET r == validate(username, password) IN
        /\ last' = Response("login", Anonymous, r.status)
        /\ UNCHANGED store

\* ------------------------------------------------------------ post requests
\* What GET /posts/ answers: the serialized queryset, or the error.
PostListResponse(token) ==
    LET o == PostPipeline(token, "GET", FALSE, 0) IN
    [status |-> o.status,
     items |-> IF o.status = "ok" THEN get_queryset(token) ELSE {}]

\* What GET /posts/{id}/ answers: the post, or the error.
PostRetrieveResponse(token, id) ==
    LET o == PostPipeline(token, "GET", TRUE, id) IN
    [status |-> o.status,
     items |-> IF o.status = "ok" THEN {id} ELSE {}]

\* GET /posts/
PostList ==
    \E token \in Tokens :
        /\ last' = Response("post_list", token, PostListResponse(token).status)
        /\ UNCHANGED store

\* GET /posts/{id}/
PostRetrieve ==
    \E token \in Tokens, id \in DOMAIN posts :
        /\ last' = Response("post_retrieve", token,
                            PostRetrieveResponse(token, id).status)
        /\ UNCHANGED store

\* PostSerializer: `author` is read-only, so of the request body only
\* is_published reaches the validated data.
PostValidated(author, is_published) == [is_published |-> is_published]

\* POST /posts/ : PostViewSet.perform_create saves with author=request.user.
PostCreate ==
    \E token \in Tokens :
        LET o == PostPipeline(token, "POST", FALSE, 0) IN
        /\ Rows < MaxRows
        /\ IF o.status # "ok"
           THEN /\ last' = Response("post_create", token, o.status)
                /\ UNCHANGED store
           ELSE \E is_published \in BOOLEAN, author \in AuthorValues :
                LET data == PostValidated(author, is_published) IN
                /\ posts' = Extend(posts, postSeq + 1,
                                   [author |-> token,
                                    is_published |-> data.is_published])
                /\ postSeq' = postSeq + 1
                /\ last' = Response("post_create", token, "ok")
                /\ UNCHANGED <<users, comments, userSeq, commentSeq>>

\* PUT/PATCH /posts/{id}/
PostUpdate ==
    \E token \in Tokens, id \in DOMAIN posts :
        LET o == PostPipeline(token, "PUT", TRUE, id) IN
        IF o.status # "ok"
        THEN /\ last' = Response("post_update", token, o.status)
             /\ UNCHANGED store
        ELSE \E is_published \in BOOLEAN, author \in AuthorValues :
             LET data == PostValidated(author, is_published) IN
             /\ posts' = [posts EXCEPT ![id] =
                    [author |-> @.author,
                     is_published |-> data.is_published]]
             /\ last' = Response("post_update", token, "ok")
             /\ UNCHANGED <<users, comments, userSeq, postSeq, commentSeq>>

\* DELETE /posts/{id}/
PostDestroy ==
    \E token \in Tokens, id \in DOMAIN posts :
        LET o == PostPipeline(token, "DELETE", TRUE, id) IN
        IF o.status # "ok"
        THEN /\ last' = Response("post_destroy", token, o.status)
             /\ UNCHANGED store
        ELSE /\ posts' = Restrict(posts, DOMAIN posts \ {id})
             /\ comments' = CommentsAfterPostDelete(id)
             /\ last' = Response("post_destroy", token, "ok")
             /\ UNCHANGED <<users, userSeq, postSeq, commentSeq>>

\* --------------------------------------------------------- comment requests
\* CommentSerializer: author_id is a writable field.  The author a saved
\* comment ends with: serializer.save(author=request.user) sets the relation,
\* and a validated author_id is then assigned over it.
SavedAuthor(current, author_id) ==
    IF author_id # Absent THEN author_id ELSE current

\* POST /posts/{id}/comments/ : PostViewSet.comments
PostCommentsCreate ==
    \E token \in Tokens, id \in DOMAIN posts :
        LET o == PostCommentsPipeline(token, id) IN
        /\ Rows < MaxRows
        /\ IF o.status # "ok"
           THEN /\ last' = Response("post_comments_create", token,
                                    o.status)
                /\ UNCHANGED store
           ELSE \E author_id \in AuthorValues :
                IF SavedAuthor(token, author_id) \notin DOMAIN users
                THEN /\ last' = Response("post_comments_create", token,
                                         "IntegrityError")
                     /\ UNCHANGED store
                ELSE /\ comments' = Extend(comments, commentSeq + 1,
                                   [post |-> id,
                                    author |-> SavedAuthor(token, author_id)])
                     /\ commentSeq' = commentSeq + 1
                     /\ last' = Response("post_comments_create", token, "ok")
                     /\ UNCHANGED <<users, posts, userSeq, postSeq>>

\* GET /posts/{id}/comments/ : PostViewSet.get_comments
PostCommentsList ==
    \E token \in Tokens, id \in DOMAIN posts :
        LET o == PostCommentsPipeline(token, id) IN
        /\ last' = Response("post_comments_list", token, o.status)
        /\ UNCHANGED store

\* GET /comments/
CommentList ==
    \E token \in Tokens :
        LET o == CommentPipeline(token, "GET", FALSE, 0) IN
        /\ last' = Response("comment_list", token, o.status)
        /\ UNCHANGED store

\* GET /comments/{id}/
CommentRetrieve ==
    \E token \in Tokens, id \in DOMAIN comments :
        LET o == CommentPipeline(token, "GET", TRUE, id) IN
        /\ last' = Response("comment_retrieve", token, o.status)
        /\ UNCHANGED store

\* POST /comments/ : CommentViewSet.perform_create; `post` is read-only in
\* CommentSerializer, so the row is saved without one and the store refuses it.
CommentCreate ==
    \E token \in Tokens :
        LET o == CommentPipeline(token, "POST", FALSE, 0) IN
        /\ last' = Response("comment_create", token,
                            IF o.status = "ok" THEN "IntegrityError"
                            ELSE o.status)
        /\ UNCHANGED store

\* PUT/PATCH /comments/{id}/
CommentUpdate ==
    \E token \in Tokens, id \in DOMAIN comments :
        LET o == CommentPipeline(token, "PUT", TRUE, id) IN
        IF o.status # "ok"
        THEN /\ last' = Response("comment_update", token, o.status)
             /\ UNCHANGED store
        ELSE \E author_id \in AuthorValues :
             IF SavedAuthor(comments[id].author, author_id) \notin DOMAIN users
             THEN /\ last' = Response("comment_update", token,
                                      "IntegrityError")
                  /\ UNCHANGED store
             ELSE /\ comments' = [comments EXCEPT ![id] =
                        [post |-> @.post,
                         author |-> SavedAuthor(@.author, author_id)]]
                  /\ last' = Response("comment_update", token, "ok")
                  /\ UNCHANGED <<users, posts, userSeq, postSeq, commentSeq>>

\* DELETE /comments/{id}/
CommentDestroy ==
    \E token \in Tokens, id \in DOMAIN comments :
        LET o == CommentPipeline(token, "DELETE", TRUE, id) IN
        IF o.status # "ok"
        THEN /\ last' = Response("comment_destroy", token, o.status)
             /\ UNCHANGED store
        ELSE /\ comments' = Restrict(comments, DOMAIN comments \ {id})
             /\ last' = Response("comment_destroy", token, "ok")
             /\ UNCHANGED <<users, posts, userSeq, postSeq, commentSeq>>

\* A detail route of any view set, named with an id that is not stored: the
\* request ends where its pipeline ends, and nothing is written.
MissingTarget ==
    \E token \in Tokens, method \in {"GET", "PUT", "DELETE"} :
        \E o \in {UserPipeline(token, "retrieve", MissingUser),
                  PostPipeline(token, method, TRUE, MissingPost),
                  PostCommentsPipeline(token, MissingPost),
                  CommentPipeline(token, method, TRUE, MissingComment)} :
            /\ last' = Response("missing", token, o.status)
            /\ UNCHANGED store

\* Any endpoint, with a token whose user was deleted: get_user raises
\* AuthenticationFailed before permissions or handlers run.
StaleToken ==
    \E token \in (1..userSeq) \ DOMAIN users :
        /\ ~Authenticates(token)
        /\ last' = Response("any", token, "AuthenticationFailed")
        /\ UNCHANGED store

Init ==
    /\ users = [x \in {} |-> 0]
    /\ posts = [x \in {} |-> 0]
    /\ comments = [x \in {} |-> 0]
    /\ userSeq = 0
    /\ postSeq = 0
    /\ commentSeq = 0
    /\ last = Response("none", Anonymous, "ok")

Next ==
    \/ UserCreate
    \/ UserUpdate
    \/ UserDestroy
    \/ Login
    \/ PostList
    \/ PostRetrieve
    \/ PostCreate
    \/ PostUpdate
    \/ PostDestroy
    \/ PostCommentsCreate
    \/ PostCommentsList
    \/ CommentList
    \/ CommentRetrieve
    \/ CommentCreate
    \/ CommentUpdate
    \/ CommentDestroy
    \/ MissingTarget
    \/ StaleToken

Spec == Init /\ [][Next]_vars

\* ================================================================ claims
UNSAFE_METHODS == {"PUT", "PATCH", "DELETE"}

C4_HiddenLooksMissing ==
    /\ PostRetrieveResponse(Anonymous, MissingPost).status = "NotFound"
    /\ \A id \in DOMAIN posts :
          IF posts[id].is_published
          THEN PostRetrieveResponse(Anonymous, id) =
                  [status |-> "ok", items |-> {id}]
          ELSE PostRetrieveResponse(Anonymous, id) =
                  PostRetrieveResponse(Anonymous, MissingPost)

\* C4 witness: a guest's fetch has just ended not-found while the store
\* holds an unpublished post.
C4_Witness ==
    /\ last.op = "post_retrieve"
    /\ last.actor = Anonymous
    /\ last.status = "NotFound"
    /\ \E p \in DOMAIN posts : ~posts[p].is_published

C6_LoginFailuresAlike ==
    \A unknown \in Usernames, known \in Usernames, p1 \in Guesses,
       p2 \in Guesses :
        (/\ ~UsernameTaken(unknown, 0)
         /\ UsernameTaken(known, 0)
         /\ validate(known, p2).status # "ok")
        => /\ validate(unknown, p1).status = "AuthenticationFailed"
           /\ validate(unknown, p1) = validate(known, p2)

\* C6 witness: a login has just failed while one username is registered
\* with a password some guess misses and another username is not registered.
C6_Witness ==
    /\ last.op = "login"
    /\ last.status = "AuthenticationFailed"
    /\ \E unknown \in Usernames : ~UsernameTaken(unknown, 0)
    /\ \E known \in Usernames, p \in Guesses :
          /\ UsernameTaken(known, 0)
          /\ validate(known, p).status # "ok"
          /\ \E q \in Guesses : validate(known, q).status = "ok"

\* C7 (as claimed): reading comments is open to every actor, the anonymous
\* one included: a comment listing succeeds, and with comments in the store
\* a fetch or a post's comment listing fails only for an id that is not there.
C7_CommentReadsOpen ==
    /\ last.op = "comment_list" => last.status = "ok"
    /\ (last.op \in {"comment_retrieve", "post_comments_list"}
        /\ DOMAIN comments # {})
          => last.status \in {"ok", "NotFound"}

C10_ReferencesResolve ==
    /\ \A p \in DOMAIN posts : posts[p].author \in DOMAIN users
    /\ \A c \in DOMAIN comments :
          /\ comments[c].author \in DOMAIN users
          /\ comments[c].post \in DOMAIN posts

\* C10 witness: a user has just been deleted, and the posts and comments
\* created so far are gone while another user remains.
C10_Witness ==
    /\ last.op = "user_destroy"
    /\ last.status = "ok"
    /\ postSeq >= 1
    /\ commentSeq >= 1
    /\ DOMAIN posts = {}
    /\ DOMAIN comments = {}
    /\ DOMAIN users # {}

====
